---- MODULE Spec2Model ----
(***************************************************************************)
(* State-machine model of construct_cmake_project.py: one process run is   *)
(* main() walking the pipeline                                             *)
(*   parse_args -> find_required_tools -> try_construct_cmake_files        *)
(*   -> compile_database -> compile_cmake_project -> report.               *)
(* The filesystem (directories of the project, compile_commands.json per   *)
(* directory, the temporary directory) outlives a run; the working         *)
(* directory, the parsed arguments and the exit status are per run.        *)
(* External programs are the environment: each invocation picks its        *)
(* return code nondeterministically.                                       *)
(***************************************************************************)
EXTENDS Integers, Sequences, FiniteSets, TLC

VARIABLES
    argv,       \* command line: [build, compile, threads, no_db]
    reach,      \* [cmake, compdb]: what `command -v` finds
    args,       \* argparse.Namespace produced by parse_args()
    pc,         \* position of main()
    run,        \* number of the current process run
    dirs,       \* names of the directories existing in the project directory
    db,         \* path -> state of compile_commands.json in that directory
    cwd,        \* working directory, a path relative to the project directory
    tmpExists,  \* the directory of tempfile.TemporaryDirectory() exists
    tmpDb,      \* state of compile_commands.json inside the temporary directory
    log,        \* steps executed in this run: [cmd, ok, n]
    stdout,     \* lines printed by main(): [kind, path]
    status,     \* process exit status, -1 while running
    outcome,    \* "running", "returned", "raised" (uncaught), "sysexit" (argparse)
    envFault,   \* the environment made a step of this run fail
    start,      \* filesystem at the start of this run
    prev,       \* result and final filesystem of the previous run
    dbAtRefine  \* compile_commands.json of cwd when compile_database() was entered

vars == <<argv, reach, args, pc, run, dirs, db, cwd, tmpExists, tmpDb, log,
          stdout, status, outcome, envFault, start, prev, dbAtRefine>>

----------------------------------------------------------------------------
(* Bounds *)

MaxRuns == 2        \* process runs in a row against the same project directory
MaxArgLen == 2      \* characters of the value given to -t/--threads

(* Program constants *)

THREADS == 4                    \* DefaultValue.THREADS
BUILD == <<"build">>            \* DefaultValue.BUILD, './build'

----------------------------------------------------------------------------
(* Inputs.  A directory name is the sequence of its blank-separated words, *)
(* so <<"my", "build">> is the one name "my build".  The value of -t is a  *)
(* sequence of characters; <<>> stands for an option that was not given.   *)

ThreadChars == {"-", "0", "8"}
ThreadArgs == {<<>>} \cup UNION {[1..k -> ThreadChars] : k \in 1..MaxArgLen}
BuildArgs == {<<>>, <<"out">>, <<"my", "build">>}
Names == {<<"build">>, <<"out">>, <<"my">>, <<"my", "build">>}
ProjectDir == <<>>
Paths == {ProjectDir} \cup {<<n>> : n \in Names}

Digits == <<"0", "1", "2", "3", "4", "5", "6", "7", "8", "9">>
IsDigit(c) == \E i \in 1..Len(Digits) : Digits[i] = c
DigitVal(c) == (CHOOSE i \in 1..Len(Digits) : Digits[i] = c) - 1

RECURSIVE Magnitude(_)
Magnitude(s) ==
    IF s = <<>> THEN 0
    ELSE 10 * Magnitude(SubSeq(s, 1, Len(s) - 1)) + DigitVal(s[Len(s)])

(* int(s) of Python on the characters the model draws: an optional sign    *)
(* followed by at least one digit; anything else raises ValueError.        *)
ParseInt(s) ==
    LET body == IF s # <<>> /\ s[1] = "-" THEN Tail(s) ELSE s
        neg == s # <<>> /\ s[1] = "-"
    IN  IF body = <<>> \/ \E i \in 1..Len(body) : ~IsDigit(body[i])
        THEN [ok |-> FALSE, val |-> 0]
        ELSE [ok |-> TRUE,
              val |-> IF neg THEN 0 - Magnitude(body) ELSE Magnitude(body)]

(* argparse action='store_false' with default=False: the destination is    *)
(* False when the flag is given and False when it is not.                  *)
StoreFalse(present, default) == IF present THEN FALSE ELSE default

StoreTrue(present) == present

NoArgs == [build |-> <<>>, compile |-> FALSE, threads |-> 0,
           not_update_clangd_db |-> FALSE]

create_option_parser(a) ==
    [build |-> IF a.build = <<>> THEN BUILD ELSE a.build,
     compile |-> StoreTrue(a.compile),
     threads |-> IF a.threads = <<>> THEN THREADS ELSE ParseInt(a.threads).val,
     not_update_clangd_db |-> StoreFalse(a.no_db, FALSE)]

----------------------------------------------------------------------------
(* Helpers translated from the free functions *)

(* run_cmd: TRUE iff check_returncode() raises CalledProcessError.        *)
(* run_cmd_nocheck is the faulty variant that drops check_returncode().    *)
run_cmd_nocheck(rc) == FALSE
run_cmd(rc) == rc # 0

terminal_program_exists(programName) == reach[programName]

(* find_required_tools: "ok" stands for the None it returns on success.   *)
(* The cmake_only variant is the fault of forgetting the compdb check.     *)
find_required_tools_cmake_only(a) ==
    IF ~terminal_program_exists("cmake") THEN "no cmake" ELSE "ok"
find_required_tools(a) ==
    IF ~terminal_program_exists("cmake") THEN "no cmake"
    ELSE IF ~a.not_update_clangd_db /\ ~terminal_program_exists("compdb")
         THEN "no compdb"
         ELSE "ok"

(* The shell splits the unquoted directory name into words. *)
ShellWords(name) == {<<name[i]>> : i \in 1..Len(name)}

(* `mkdir -p name`: [rc, dirs]. envOk = FALSE is a refusal of the file     *)
(* system (permissions, a file in the way).  mkdir_plain is the fault of   *)
(* dropping -p: it fails on a directory that exists.                       *)
mkdir_plain(existing, name, envOk) ==
    IF envOk /\ ShellWords(name) \cap existing = {}
    THEN [rc |-> 0, dirs |-> existing \cup ShellWords(name)]
    ELSE [rc |-> 1, dirs |-> existing]
mkdir_p(existing, name, envOk) ==
    IF envOk
    THEN [rc |-> 0, dirs |-> existing \cup ShellWords(name)]
    ELSE [rc |-> 1, dirs |-> existing]

(* os.chdir(name) from directory d: the new working directory.            *)
(* chdir_stay is the fault of not entering the build directory.           *)
chdir_stay(d, name) == d
chdir(d, name) == d \o <<name>>

(* `mv ./compile_commands.json tmp/`: what is left at the source.         *)
(* cp_source is the fault of copying instead of moving.                   *)
cp_source(state, rc) == state
mv_source(state, rc) == IF rc = 0 THEN "absent" ELSE state

(* TemporaryDirectory.__exit__: whether the directory exists afterwards.  *)
(* The leak variant is a directory made by hand and never released.       *)
TemporaryDirectory_leak(exists) == exists
TemporaryDirectory_exit(exists) == FALSE

(* The command line compile_cmake_project runs.  The default variant is   *)
(* the fault of a fixed --parallel value, as in the help text of -c.       *)
compile_cmake_project_default(threadCount) ==
    [cmd |-> "build", n |-> THREADS]
compile_cmake_project(threadCount) ==
    [cmd |-> "build", n |-> threadCount]

Step(cmd, ok) == [cmd |-> cmd, ok |-> ok, n |-> 0]

(* main(), lines 42 and 48: the step that follows project construction,    *)
(* and the one that follows database refinement.                           *)
AfterRefine(a) == IF a.compile THEN "compile" ELSE "report"
AfterConstruct(a) ==
    IF ~a.not_update_clangd_db THEN "mktmp" ELSE AfterRefine(a)

----------------------------------------------------------------------------
Init ==
    /\ argv \in [build : BuildArgs, compile : BOOLEAN, threads : ThreadArgs,
                 no_db : BOOLEAN]
    /\ reach \in [{"cmake", "compdb"} -> BOOLEAN]
    /\ args = NoArgs
    /\ pc = "parse"
    /\ run = 1
    /\ dirs \in SUBSET {<<"build">>, <<"my", "build">>}
    /\ db = [p \in Paths |-> "absent"]
    /\ cwd = ProjectDir
    /\ tmpExists = FALSE
    /\ tmpDb = "absent"
    /\ log = <<>>
    /\ stdout = <<>>
    /\ status = -1
    /\ outcome = "running"
    /\ envFault = FALSE
    /\ start = [dirs |-> dirs, db |-> db]
    /\ prev = [ok |-> FALSE, dirs |-> {}, db |-> db]
    /\ dbAtRefine = "absent"

fsVars == <<dirs, db, tmpExists, tmpDb>>
confVars == <<argv, reach, run, start, prev>>

(* `return 1` of main() *)
Return1 ==
    /\ pc' = "done"
    /\ status' = 1
    /\ outcome' = "returned"

(* An exception main() does not catch: traceback, exit status 1. *)
Uncaught ==
    /\ pc' = "done"
    /\ status' = 1
    /\ outcome' = "raised"

(* main() line 29 *)
ParseArgs ==
    /\ pc = "parse"
    /\ IF argv.threads # <<>> /\ ~ParseInt(argv.threads).ok
       THEN /\ pc' = "done"
            /\ status' = 2
            /\ outcome' = "sysexit"
            /\ args' = args
       ELSE /\ pc' = "tools"
            /\ args' = create_option_parser(argv)
            /\ UNCHANGED <<status, outcome>>
    /\ UNCHANGED <<fsVars, confVars, cwd, log, stdout, envFault, dbAtRefine>>

(* main() lines 32-35 *)
FindRequiredTools ==
    /\ pc = "tools"
    /\ LET res == find_required_tools(args)
       IN  IF res # "ok"
           THEN /\ stdout' = Append(stdout, [kind |-> res, path |-> <<>>])
                /\ Return1
           ELSE /\ pc' = "mkdir"
                /\ UNCHANGED <<stdout, status, outcome>>
    /\ UNCHANGED <<fsVars, confVars, args, cwd, log, envFault, dbAtRefine>>

(* try_construct_cmake_files line 167, caught at main() line 39 *)
Mkdir ==
    /\ pc = "mkdir"
    /\ \E envOk \in BOOLEAN :
        LET r == mkdir_p(dirs, args.build, envOk)
        IN  /\ dirs' = r.dirs
            /\ log' = Append(log, Step("mkdir", r.rc = 0))
            /\ envFault' = (envFault \/ ~envOk)
            /\ IF run_cmd(r.rc)
               THEN Return1
               ELSE /\ pc' = "chdir"
                    /\ UNCHANGED <<status, outcome>>
    /\ UNCHANGED <<db, tmpExists, tmpDb, confVars, args, cwd, stdout, dbAtRefine>>

(* try_construct_cmake_files line 168: OSError is not caught by main() *)
Chdir ==
    /\ pc = "chdir"
    /\ \E envOk \in BOOLEAN :
        LET ok == envOk /\ args.build \in dirs
        IN  /\ log' = Append(log, Step("chdir", ok))
            /\ envFault' = (envFault \/ ~envOk)
            /\ IF ok
               THEN /\ cwd' = chdir(cwd, args.build)
                    /\ pc' = "cmake"
                    /\ UNCHANGED <<status, outcome>>
               ELSE /\ cwd' = cwd
                    /\ Uncaught
    /\ UNCHANGED <<fsVars, confVars, args, stdout, dbAtRefine>>

(* try_construct_cmake_files line 171, caught at main() line 39 *)
CMakeConfigure ==
    /\ pc = "cmake"
    /\ \E envOk \in BOOLEAN, exported \in BOOLEAN :
        LET rc == IF envOk THEN 0 ELSE 1
        IN  /\ db' = IF rc = 0 /\ exported
                     THEN [db EXCEPT ![cwd] = "cmake"] ELSE db
            /\ log' = Append(log, Step("cmake", rc = 0))
            /\ envFault' = (envFault \/ ~envOk)
            /\ IF run_cmd(rc)
               THEN Return1
               ELSE /\ pc' = AfterConstruct(args)
                    /\ UNCHANGED <<status, outcome>>
    /\ UNCHANGED <<dirs, tmpExists, tmpDb, confVars, args, cwd, stdout, dbAtRefine>>

(* Leaving the `with` block of compile_database() on an exception: the    *)
(* temporary directory is released, then main() line 45 returns 1.         *)
RefineFail(tmpDbNow) ==
    /\ tmpExists' = TemporaryDirectory_exit(tmpExists)
    /\ tmpDb' = IF tmpExists' THEN tmpDbNow ELSE "absent"
    /\ Return1

(* compile_database line 176: tempfile.TemporaryDirectory() *)
MkTemp ==
    /\ pc = "mktmp"
    /\ dbAtRefine' = db[cwd]
    /\ \E envOk \in BOOLEAN :
        /\ log' = Append(log, Step("mktmp", envOk))
        /\ envFault' = (envFault \/ ~envOk)
        /\ IF envOk
           THEN /\ tmpExists' = TRUE
                /\ tmpDb' = "absent"
                /\ pc' = "mv"
                /\ UNCHANGED <<status, outcome>>
           ELSE /\ UNCHANGED <<tmpExists, tmpDb>>
                /\ Return1
    /\ UNCHANGED <<dirs, db, confVars, args, cwd, stdout>>

(* compile_database line 177 *)
MoveDb ==
    /\ pc = "mv"
    /\ \E envOk \in BOOLEAN :
        LET rc == IF envOk /\ tmpExists /\ db[cwd] # "absent" THEN 0 ELSE 1
            moved == IF rc = 0 THEN db[cwd] ELSE tmpDb
        IN  /\ db' = [db EXCEPT ![cwd] = mv_source(db[cwd], rc)]
            /\ log' = Append(log, Step("mv", rc = 0))
            /\ envFault' = (envFault \/ ~envOk)
            /\ IF run_cmd(rc)
               THEN RefineFail(moved)
               ELSE /\ tmpDb' = moved
                    /\ pc' = "compdb"
                    /\ UNCHANGED <<tmpExists, status, outcome>>
    /\ UNCHANGED <<dirs, confVars, args, cwd, stdout, dbAtRefine>>

(* compile_database line 178: the shell opens (truncates) the target of    *)
(* the redirection, then runs compdb on the temporary directory.           *)
Compdb ==
    /\ pc = "compdb"
    /\ \E openOk \in BOOLEAN, toolOk \in BOOLEAN :
        LET rc == IF openOk /\ toolOk /\ tmpExists /\ tmpDb # "absent"
                  THEN 0 ELSE 1
            out == IF ~openOk THEN db[cwd]
                   ELSE IF rc = 0 THEN "refined" ELSE "partial"
        IN  /\ (~openOk => toolOk)
            /\ db' = [db EXCEPT ![cwd] = out]
            /\ log' = Append(log, Step("compdb", rc = 0))
            /\ envFault' = (envFault \/ ~openOk \/ ~toolOk)
            /\ IF run_cmd(rc)
               THEN RefineFail(tmpDb)
               ELSE /\ pc' = "ls"
                    /\ UNCHANGED <<tmpExists, tmpDb, status, outcome>>
    /\ UNCHANGED <<dirs, confVars, args, cwd, stdout, dbAtRefine>>

(* compile_database line 179 *)
LsTmp ==
    /\ pc = "ls"
    /\ \E envOk \in BOOLEAN :
        LET rc == IF envOk /\ tmpExists THEN 0 ELSE 1
        IN  /\ log' = Append(log, Step("ls", rc = 0))
            /\ envFault' = (envFault \/ ~envOk)
            /\ IF run_cmd(rc)
               THEN RefineFail(tmpDb)
               ELSE /\ pc' = "rm"
                    /\ UNCHANGED <<tmpExists, tmpDb, status, outcome>>
    /\ UNCHANGED <<dirs, db, confVars, args, cwd, stdout, dbAtRefine>>

(* compile_database line 180 and the end of the `with` block *)
RmTmp ==
    /\ pc = "rm"
    /\ \E envOk \in BOOLEAN :
        LET rc == IF envOk /\ tmpExists THEN 0 ELSE 1
            left == IF rc = 0 THEN FALSE ELSE tmpExists
        IN  /\ log' = Append(log, Step("rm", rc = 0))
            /\ envFault' = (envFault \/ ~envOk)
            /\ tmpExists' = TemporaryDirectory_exit(left)
            /\ tmpDb' = IF tmpExists' THEN tmpDb ELSE "absent"
            /\ IF run_cmd(rc)
               THEN Return1
               ELSE /\ pc' = AfterRefine(args)
                    /\ UNCHANGED <<status, outcome>>
    /\ UNCHANGED <<dirs, db, confVars, args, cwd, stdout, dbAtRefine>>

(* main() lines 48-52 with compile_cmake_project *)
Compile ==
    /\ pc = "compile"
    /\ \E envOk \in BOOLEAN :
        LET rc == IF envOk THEN 0 ELSE 1
            c == compile_cmake_project(args.threads)
        IN  /\ log' = Append(log, [cmd |-> c.cmd, ok |-> rc = 0, n |-> c.n])
            /\ envFault' = (envFault \/ ~envOk)
            /\ IF run_cmd(rc)
               THEN Return1
               ELSE /\ pc' = "report"
                    /\ UNCHANGED <<status, outcome>>
    /\ UNCHANGED <<fsVars, confVars, args, cwd, stdout, dbAtRefine>>

(* main() lines 54-56: os.getcwd() is printed *)
Report ==
    /\ pc = "report"
    /\ stdout' = Append(stdout, [kind |-> "location", path |-> cwd])
    /\ pc' = "done"
    /\ status' = 0
    /\ outcome' = "returned"
    /\ UNCHANGED <<fsVars, confVars, args, cwd, log, envFault, dbAtRefine>>

(* The same command line is run again in the project directory. *)
Rerun ==
    /\ pc = "done"
    /\ run < MaxRuns
    /\ run' = run + 1
    /\ pc' = "parse"
    /\ args' = NoArgs
    /\ cwd' = ProjectDir
    /\ log' = <<>>
    /\ stdout' = <<>>
    /\ status' = -1
    /\ outcome' = "running"
    /\ envFault' = FALSE
    /\ start' = [dirs |-> dirs, db |-> db]
    /\ prev' = [ok |-> (status = 0), dirs |-> dirs, db |-> db]
    /\ dbAtRefine' = "absent"
    /\ UNCHANGED <<fsVars, argv, reach>>

Next ==
    \/ ParseArgs
    \/ FindRequiredTools
    \/ Mkdir
    \/ Chdir
    \/ CMakeConfigure
    \/ MkTemp
    \/ MoveDb
    \/ Compdb
    \/ LsTmp
    \/ RmTmp
    \/ Compile
    \/ Report
    \/ Rerun

Spec == Init /\ [][Next]_vars

----------------------------------------------------------------------------
(* Vocabulary of the properties *)

Ran(c) == \E i \in 1..Len(log) : log[i].cmd = c
RanOk(c) == \E i \in 1..Len(log) : log[i].cmd = c /\ log[i].ok
FailedAt(c) == \E i \in 1..Len(log) : log[i].cmd = c /\ ~log[i].ok
Parsed == pc # "parse" /\ outcome # "sysexit"
Reported == \E i \in 1..Len(stdout) : stdout[i].kind = "location"
Builds == {i \in 1..Len(log) : log[i].cmd = "build"}
RefineSteps == {"mktmp", "mv", "compdb", "ls", "rm"}
BuildPath == ProjectDir \o <<args.build>>

(* C1: when cmake is not reachable, or refinement is not skipped and       *)
(* compdb is not reachable, main() ends with exit status 1, and nothing on *)
(* the filesystem has changed in that run: no directory created, working   *)
(* directory unchanged, no step (cmake included) ever executed.            *)
C1_MissingToolFailFast ==
    (Parsed /\ (~reach["cmake"]
                \/ (~args.not_update_clangd_db /\ ~reach["compdb"])))
    => /\ pc \in {"tools", "done"}
       /\ (pc = "done" => status = 1 /\ outcome = "returned")
       /\ dirs = start.dirs
       /\ db = start.db
       /\ cwd = ProjectDir
       /\ log = <<>>
       /\ ~Reported

C1_Witness ==
    /\ pc = "done"
    /\ Parsed
    /\ reach["cmake"]
    /\ ~reach["compdb"]
    /\ status = 1
    /\ dirs = start.dirs

(* C2: with --not_update_clangd_db on the command line the refinement step *)
(* never executes and compdb need not be reachable; without the flag the   *)
(* refinement executes after a successful project construction.            *)
C2_FlagDisablesRefinement ==
    /\ (argv.no_db => \A c \in RefineSteps : ~Ran(c))
    /\ (argv.no_db /\ reach["cmake"] /\ pc = "done" /\ Parsed => log # <<>>)
    /\ (~argv.no_db /\ RanOk("cmake") /\ pc = "done" => Ran("mktmp"))

(* C3: a failed step is the last step of the run: after it nothing is      *)
(* executed, the build location is not printed and the exit status is 1;   *)
(* the same holds for a missing tool; exit status 0 only comes with every  *)
(* requested step having succeeded.                                        *)
C3_FailureAbsorbing ==
    /\ \A i \in 1..Len(log) :
         ~log[i].ok => /\ i = Len(log)
                       /\ pc = "done"
                       /\ status = 1
                       /\ ~Reported
    /\ (Parsed /\ pc = "done"
        /\ (~reach["cmake"]
            \/ (~args.not_update_clangd_db /\ ~reach["compdb"]))
           => status = 1 /\ log = <<>> /\ ~Reported)
    /\ (status = 0 =>
          /\ RanOk("mkdir") /\ RanOk("chdir") /\ RanOk("cmake")
          /\ (~argv.no_db => \A c \in RefineSteps : RanOk(c))
          /\ (argv.compile => RanOk("build"))
          /\ \A i \in 1..Len(log) : log[i].ok
          /\ Reported)

C3_Witness ==
    /\ pc = "done"
    /\ status = 1
    /\ FailedAt("cmake")
    /\ ~Reported

(* C4: outside the commands of compile_database() the temporary directory  *)
(* does not exist, whichever command failed or if all succeeded; a failure *)
(* of the refinement ends the process with exit status 1.                  *)
C4_TempDirRemoved ==
    /\ (pc \notin {"mv", "compdb", "ls", "rm"} => ~tmpExists)
    /\ (pc = "done" /\ (\E c \in RefineSteps : FailedAt(c)) => status = 1)

C4_Witness ==
    /\ pc = "done"
    /\ FailedAt("compdb")
    /\ ~tmpExists
    /\ status = 1

(* C5: `cmake --build` is invoked at most once per run, only when -c was   *)
(* given and every earlier step succeeded, and whenever that is so; its    *)
(* --parallel value is the configured thread count (8 for -t 8, 4 by       *)
(* default).                                                               *)
C5_CompileIffRequested ==
    /\ Cardinality(Builds) <= 1
    /\ \A i \in Builds :
         /\ argv.compile
         /\ \A j \in 1..(i - 1) : log[j].ok
         /\ RanOk("cmake")
         /\ log[i].n = args.threads
         /\ (argv.threads = <<"8">> => log[i].n = 8)
         /\ (argv.threads = <<>> => log[i].n = THREADS)
    /\ (~argv.compile => Builds = {})
    /\ (pc = "done" /\ argv.compile /\ RanOk("cmake")
        /\ (\A i \in 1..Len(log) : log[i].cmd # "build" => log[i].ok)
           => Builds # {})

C5_Witness ==
    /\ pc = "done"
    /\ argv.threads = <<"8">>
    /\ \E i \in Builds : log[i].n = 8 /\ log[i].ok

(* C6: a run without -c that ends with exit status 0 leaves the build      *)
(* directory existing, with a compile_commands.json in it when refinement  *)
(* was requested, and the directory it printed is the working directory,   *)
(* the absolute path of the configured build directory; no compile step    *)
(* ran.                                                                    *)
C6_SuccessPostcondition ==
    (pc = "done" /\ status = 0 /\ ~args.compile /\ reach["cmake"]
     /\ RanOk("cmake"))
    => /\ args.build \in dirs
       /\ (~args.not_update_clangd_db => db[BuildPath] # "absent")
       /\ stdout = <<[kind |-> "location", path |-> cwd]>>
       /\ cwd = BuildPath
       /\ Builds = {}

C6_Witness ==
    /\ pc = "done"
    /\ status = 0
    /\ ~args.compile
    /\ cwd = BuildPath
    /\ db[BuildPath] = "refined"

(* C7: a run that follows a successful run with the same command line, and *)
(* in which the environment refuses nothing, ends with exit status 0 and   *)
(* in the filesystem state the previous run ended in: build directory      *)
(* present, compile_commands.json present, no temporary directory.         *)
C7_IdempotentRerun ==
    /\ (run > 1 /\ prev.ok /\ ~envFault => ~FailedAt("mkdir"))
    /\ (run > 1 /\ prev.ok /\ ~envFault /\ pc = "done")
       => /\ status = 0
          /\ dirs = prev.dirs
          /\ db = prev.db
          /\ args.build \in dirs
          /\ db[BuildPath] # "absent"
          /\ ~tmpExists

C7_Witness ==
    /\ run > 1
    /\ prev.ok
    /\ ~envFault
    /\ pc = "done"
    /\ status = 0
    /\ RanOk("mkdir")

(* C8: a failure to create or to enter the build directory is handled by   *)
(* main(): it returns exit status 1, and cmake, the refinement, the        *)
(* compilation and the reporter do not execute.                            *)
C8_ConstructionOSErrorHandled ==
    (pc = "done" /\ (FailedAt("mkdir") \/ FailedAt("chdir")))
    => /\ outcome = "returned"
       /\ status = 1
       /\ ~Ran("cmake")
       /\ \A c \in RefineSteps : ~Ran(c)
       /\ Builds = {}
       /\ ~Reported

(* C9: the value handed to `cmake --build --parallel` is at least 1. *)
C9_ThreadsPositive ==
    \A i \in Builds : log[i].n >= 1

(* C10: when the refinement fails after the move, the file left in the     *)
(* build directory at exit is not the cmake-generated one (it is absent,   *)
(* or what the redirection wrote) and the temporary directory that held    *)
(* the original is gone; when the move itself fails, the file in the build *)
(* directory is the one that was there when the refinement began.          *)
C10_NoRollback ==
    /\ (pc = "done" /\ RanOk("mv")
        /\ (FailedAt("compdb") \/ FailedAt("ls") \/ FailedAt("rm")))
       => /\ db[cwd] \in {"absent", "partial", "refined"}
          /\ (db[cwd] = "refined" => RanOk("compdb"))
          /\ (db[cwd] = "absent" => FailedAt("compdb"))
          /\ ~tmpExists
          /\ tmpDb = "absent"
          /\ status = 1
    /\ (pc = "done" /\ FailedAt("mv")) => db[cwd] = dbAtRefine /\ status = 1

C10_Witness ==
    /\ pc = "done"
    /\ RanOk("mv")
    /\ FailedAt("compdb")
    /\ dbAtRefine = "cmake"
    /\ db[cwd] = "partial"
    /\ ~tmpExists

C10_WitnessMoveFails ==
    /\ pc = "done"
    /\ FailedAt("mv")
    /\ db[cwd] = dbAtRefine

====
